---- MODULE Spec2Model ----
(***************************************************************************)
(* Model of dashboard.py: the cached fetcher (_fetch behind                *)
(* st.cache_data(ttl=60)), the four shaping blocks of the DATA section,    *)
(* the price metrics loop, fmt_b, and the script-run / refresh cycle.      *)
(*                                                                         *)
(* JSON values.  A scalar field of a JSON object is a record [k, n]:       *)
(*   k = "missing"  the key is absent from the object                      *)
(*   k = "null"     JSON null (None; NaN once inside a DataFrame)          *)
(*   k = "str"      a non-numeric string                                   *)
(*   k = "numstr"   a string holding the decimal numeral of n              *)
(*   k = "num"      the number n                                           *)
(* A response body is [t, keys, rows]: t = "list" is a JSON array of       *)
(* objects (rows); t = "obj" is a JSON object with top-level key set keys, *)
(* whose array-valued key (peggedAssets / data), when present, holds rows. *)
(* Numbers are integers of the model's unit.                               *)
(***************************************************************************)
EXTENDS Integers, Sequences, FiniteSets, TLC

VARIABLES
  now,         \* the clock st.cache_data reads
  cache,       \* st.cache_data's store: endpoint -> [has, data, at]
  pc,          \* where the script run stands
  refreshing,  \* the run in progress was started by the Refresh button
  min_apy,     \* the number_input of line 35
  protocols, chains, stables, yields,   \* the DataFrames of the DATA section
  prices,      \* the price mapping of line 113
  exc,         \* the exception that ended the run, "" when none
  warnings,    \* endpoints st.warning named in this run
  requests,    \* endpoints requests.get was called for in this run
  log,         \* history: per endpoint its last network call since the last
               \* cache clear; when this run and the one before it started
  metrics,     \* the price metrics and summary metrics rendered by the run
  arg, res     \* argument and result of a function applied on its own

vars == <<now, cache, pc, refreshing, min_apy, protocols, chains, stables,
          yields, prices, exc, warnings, requests, log, metrics, arg, res>>

FV(k, n) == [k |-> k, n |-> n]
Missing == FV("missing", 0)
Null == FV("null", 0)
BadStr == FV("str", 0)
NumStr(n) == FV("numstr", n)
Num(n) == FV("num", n)

\* The empty mapping {} that _fetch returns on failure.
EmptyMap == [t |-> "obj", keys |-> {}, rows |-> <<>>]

Min(a, b) == IF a <= b THEN a ELSE b

\* Python truthiness of a response body: `if raw`.
Truthy(raw) == IF raw.t = "list" THEN Len(raw.rows) > 0 ELSE raw.keys # {}

\* Columns of pd.DataFrame(rows): the union of the keys of the row objects.
Columns(rows, fields) ==
  {f \in fields : \E i \in 1..Len(rows) : rows[i][f].k # "missing"}

\* pd.to_numeric(v, errors='coerce') followed by .fillna(0), on one cell.
ToNumericCell(v) == IF v.k \in {"num", "numstr"} THEN Num(v.n) ELSE Num(0)

\* df[f] = pd.to_numeric(df.get(f, 0), errors='coerce').fillna(0): when no row
\* holds f, df.get returns the scalar 0, to_numeric returns the int 0 and
\* int has no fillna.
CoerceColumn(rows, f, fields) ==
  IF f \in Columns(rows, fields)
  THEN [exc |-> "", rows |-> [i \in 1..Len(rows) |->
                               [rows[i] EXCEPT ![f] = ToNumericCell(rows[i][f])]]]
  ELSE [exc |-> "AttributeError", rows |-> <<>>]

---------------------------------------------------------------------------
(* sort_values(col, ascending=False): nulls last in input order; the rest  *)
(* compared as Python compares the column's values.                        *)

RECURSIVE Digits(_)
Digits(n) == IF n < 10 THEN <<n>> ELSE Append(Digits(n \div 10), n % 10)

\* The characters of a string cell as codes that order like ASCII: the
\* digits 0..9, and 10 for a letter (letters sort above digits).
StrKey(v) == IF v.k = "numstr" THEN Digits(v.n) ELSE <<10>>

RECURSIVE LexLess(_, _)
LexLess(s, u) ==
  IF u = <<>> THEN FALSE
  ELSE IF s = <<>> THEN TRUE
  ELSE IF Head(s) # Head(u) THEN Head(s) < Head(u)
  ELSE LexLess(Tail(s), Tail(u))

IsStrCell(v) == v.k \in {"str", "numstr"}

\* a < b for two non-null cells of one kind.
CellLess(a, b) ==
  IF a.k = "num" /\ b.k = "num" THEN a.n < b.n
  ELSE LexLess(StrKey(a), StrKey(b))

\* Comparing a str with a number raises TypeError inside argsort.
SortRaises(rows, f) ==
  \E i, j \in 1..Len(rows) :
     /\ rows[i][f].k = "num"
     /\ IsStrCell(rows[j][f])

RECURSIVE InsertDesc(_, _, _, _)
\* r placed into the descending sequence s; among equal keys it goes after
\* them when tie = "stable" and before them otherwise (the default
\* kind='quicksort' does not fix the order of ties).
InsertDesc(s, r, f, tie) ==
  IF s = <<>> THEN <<r>>
  ELSE IF \/ CellLess(Head(s)[f], r[f])
          \/ (tie # "stable" /\ ~CellLess(r[f], Head(s)[f]))
       THEN <<r>> \o s
       ELSE <<Head(s)>> \o InsertDesc(Tail(s), r, f, tie)

RECURSIVE SortNonNull(_, _, _)
SortNonNull(rows, f, tie) ==
  IF rows = <<>> THEN <<>>
  ELSE LET n == Len(rows)
       IN InsertDesc(SortNonNull(SubSeq(rows, 1, n - 1), f, tie), rows[n], f, tie)

IsNullCell(r, f) == r[f].k \in {"null", "missing"}

SortDesc(rows, f, tie) ==
  SortNonNull(SelectSeq(rows, LAMBDA r : ~IsNullCell(r, f)), f, tie)
    \o SelectSeq(rows, LAMBDA r : IsNullCell(r, f))

HeadOneMore(rows, n) == SubSeq(rows, 1, Min(n + 1, Len(rows)))
\* DataFrame.head(n)
Head_(rows, n) == SubSeq(rows, 1, Min(n, Len(rows)))

---------------------------------------------------------------------------
(* The DATA section: one shaping block per source.  A block yields         *)
(* [exc, table]: exc = "" and the DataFrame bound to the section's name,   *)
(* or the exception that leaves the block (and so the script run).         *)

TOP_PROTOCOLS == 10
TOP_CHAINS == 10
TOP_STABLES == 6
TOP_YIELDS == 12
APY_MAX == 1000

Ok(table) == [exc |-> "", table |-> table]
Raise(e) == [exc |-> e, table |-> <<>>]

ArrayKeys == {"peggedAssets", "data"}

\* pd.DataFrame(raw) in the protocols / chains block: a non-empty object of
\* scalars only has no index ("If using all scalar values, you must pass an
\* index").
FrameRaises(raw) == raw.t = "obj" /\ raw.keys \cap ArrayKeys = {}

\* The rows of pd.DataFrame(raw) as far as the columns tvl / change_1d go: an
\* object holding an array is a frame with that one column and neither of
\* these.
FrameRows(raw) == IF raw.t = "list" THEN raw.rows ELSE <<>>

\* lines 70-77
ShapeProtocols(raw, tie) ==
  IF ~Truthy(raw) THEN Ok(<<>>)
  ELSE IF FrameRaises(raw) THEN Raise("ValueError")
  ELSE LET c1 == CoerceColumn(FrameRows(raw), "tvl", {"tvl", "change_1d"})
           c2 == CoerceColumn(c1.rows, "change_1d", {"tvl", "change_1d"})
       IN IF c1.exc # "" THEN Raise(c1.exc)
          ELSE IF c2.exc # "" THEN Raise(c2.exc)
          ELSE Ok(Head_(SortDesc(c2.rows, "tvl", tie), TOP_PROTOCOLS))

\* lines 80-86
ShapeChains(raw, tie) ==
  IF ~Truthy(raw) THEN Ok(<<>>)
  ELSE IF FrameRaises(raw) THEN Raise("ValueError")
  ELSE LET c1 == CoerceColumn(FrameRows(raw), "tvl", {"tvl"})
       IN IF c1.exc # "" THEN Raise(c1.exc)
          ELSE Ok(Head_(SortDesc(c1.rows, "tvl", tie), TOP_CHAINS))

\* `key in raw`: membership in the keys of an object; a list of objects never
\* contains a string.
HasKey(raw, key) == raw.t = "obj" /\ key \in raw.keys

\* lines 93-94: a circulating cell x is [k, peggedUSD], k = "dict" when it is
\* a mapping.
usd(x) ==
  IF x.k = "dict"
  THEN IF x.peggedUSD.k = "missing" THEN Num(0) ELSE x.peggedUSD
  ELSE Num(0)

\* lines 89-98
ShapeStables(raw, tie) ==
  IF ~(Truthy(raw) /\ HasKey(raw, "peggedAssets")) THEN Ok(<<>>)
  ELSE IF "circulating" \notin Columns(raw.rows, {"circulating"})
       THEN Raise("KeyError")
  ELSE LET withUsd == [i \in 1..Len(raw.rows) |->
                         [name |-> raw.rows[i].name,
                          circulating |-> raw.rows[i].circulating,
                          circulating_usd |-> usd(raw.rows[i].circulating)]]
       IN IF SortRaises(withUsd, "circulating_usd") THEN Raise("TypeError")
          ELSE Ok(Head_(SortDesc(withUsd, "circulating_usd", tie), TOP_STABLES))

ApyFilterInclusive(r, min_apy_) == r.apy.n >= min_apy_ /\ r.apy.n < APY_MAX
\* line 107: yields['apy'].gt(min_apy) & yields['apy'].lt(1000)
ApyFilter(r, min_apy_) == r.apy.n > min_apy_ /\ r.apy.n < APY_MAX

\* lines 101-110
ShapeYields(raw, min_apy_, tie) ==
  IF ~(Truthy(raw) /\ HasKey(raw, "data")) THEN Ok(<<>>)
  ELSE IF raw.rows = <<>> THEN Ok(<<>>)
  ELSE LET c1 == CoerceColumn(raw.rows, "apy", {"apy", "tvlUsd"})
           c2 == CoerceColumn(c1.rows, "tvlUsd", {"apy", "tvlUsd"})
       IN IF c1.exc # "" THEN Raise(c1.exc)
          ELSE IF c2.exc # "" THEN Raise(c2.exc)
          ELSE Ok(Head_(SortDesc(SelectSeq(c2.rows,
                                   LAMBDA r : ApyFilter(r, min_apy_)),
                                 "apy", tie),
                        TOP_YIELDS))

---------------------------------------------------------------------------
(* Response bodies the model feeds the shaping blocks.  Row i of a body    *)
(* takes its cells from ValPool at stride p from offset q; q = Len(ValPool)*)
(* is a column of distinct-and-tied numbers inside the APY window.         *)

MaxRows == 13
MaxStride == 2

ValPool == <<Num(5), NumStr(42), Num(1000), Null, Num(10), BadStr, Num(50),
             Missing, NumStr(9), Num(0), Num(999), NumStr(10)>>
PoolLen == Len(ValPool)

GenVal(i, p, q) ==
  IF q = PoolLen THEN Num(((i * 7 + p * 5) % 11) + 11)
  ELSE ValPool[(((i - 1) * p + q) % PoolLen) + 1]

GenVal2(i, p, q) ==
  IF q = PoolLen THEN GenVal(i, p + 1, q) ELSE GenVal(i, p, (q + 5) % PoolLen)

CircPool == <<"dict", "dict", "scalar", "dict", "missing", "dict", "null", "dict">>

GenCirc(i, p, q) ==
  [k |-> IF q = PoolLen THEN "dict" ELSE CircPool[(((i - 1) * p + q) % Len(CircPool)) + 1],
   peggedUSD |-> GenVal(i, p, q)]

GenRows(e, n, p, q) ==
  [i \in 1..n |->
     CASE e = "protocols" -> [name |-> i, tvl |-> GenVal(i, p, q),
                              change_1d |-> GenVal2(i, p, q)]
       [] e = "chains"    -> [name |-> i, tvl |-> GenVal(i, p, q)]
       [] e = "stables"   -> [name |-> i, circulating |-> GenCirc(i, p, q)]
       [] e = "yields"    -> [name |-> i, apy |-> GenVal(i, p, q),
                              tvlUsd |-> GenVal2(i, p, q)]]

ErrObj == [t |-> "obj", keys |-> {"error"}, rows |-> <<>>]
ListBody(rows) == [t |-> "list", keys |-> {}, rows |-> rows]
KeyedBody(key, rows) == [t |-> "obj", keys |-> {key}, rows |-> rows]

ArrayKey(e) == IF e = "stables" THEN "peggedAssets" ELSE "data"

Sources == {"protocols", "chains", "stables", "yields"}
MinApyValues == {0, 10, 50}
Ties == {"stable", "reversed"}

\* Bodies whose rows are GenRows(e, n, p, q) for n in ns, p in ps, q in qs.
BodiesOf(e, ns, ps, qs) ==
  {EmptyMap, ErrObj}
    \cup {ListBody(GenRows(e, n, p, q)) : n \in ns, p \in ps, q \in qs}
    \cup (IF e \in {"stables", "yields"}
          THEN {KeyedBody(ArrayKey(e), GenRows(e, n, p, q)) :
                   n \in ns, p \in ps, q \in qs}
          ELSE {})

Shape(e, raw, m, tie) ==
  CASE e = "protocols" -> ShapeProtocols(raw, tie)
    [] e = "chains"    -> ShapeChains(raw, tie)
    [] e = "stables"   -> ShapeStables(raw, tie)
    [] e = "yields"    -> ShapeYields(raw, m, tie)

Pending == [exc |-> "pending", table |-> <<>>]

\* The state of a program that has not run yet.
Fresh ==
  /\ now = 0
  /\ cache = <<>>
  /\ refreshing = FALSE
  /\ protocols = <<>> /\ chains = <<>> /\ stables = <<>> /\ yields = <<>>
  /\ prices = EmptyMap
  /\ exc = ""
  /\ warnings = {}
  /\ requests = <<>>
  /\ log = <<>>
  /\ metrics = <<>>

ctlvars == <<now, cache, refreshing, protocols, chains, stables, yields,
             prices, exc, warnings, requests, log, metrics>>

(* SpecShape: one shaping block applied to one body. *)
InitShape ==
  /\ Fresh
  /\ pc = "input"
  /\ min_apy \in MinApyValues
  /\ \E e \in Sources :
       arg \in [e : {e}, tie : Ties,
                raw : BodiesOf(e, 0..MaxRows, 0..MaxStride, 0..PoolLen)]
  /\ res = Pending

ApplyShape ==
  /\ pc = "input"
  /\ res' = Shape(arg.e, arg.raw, min_apy, arg.tie)
  /\ pc' = "done"
  /\ UNCHANGED <<ctlvars, min_apy, arg>>

NextShape == ApplyShape

SpecShape == InitShape /\ [][NextShape]_vars

---------------------------------------------------------------------------
(* Formatting.  TLC's integers are 32-bit, so a dollar amount x is kept as *)
(* [hi, lo] with x = hi * 10^6 + lo and 0 <= lo < 10^6; amounts are whole  *)
(* and non-negative.  Prices and percentage changes are whole hundredths.  *)

Amount(hi, lo) == [hi |-> hi, lo |-> lo]
AmountOf(n) == Amount(n \div 1000000, n % 1000000)

Pad(n, width) ==
  IF width = 3 /\ n < 10 THEN "00" \o ToString(n)
  ELSE IF (width = 3 /\ n < 100) \/ (width = 2 /\ n < 10) THEN "0" \o ToString(n)
  ELSE ToString(n)

RECURSIVE Grouped(_)
\* format(n, ",") of a non-negative integer
Grouped(n) ==
  IF n < 1000 THEN ToString(n)
  ELSE Grouped(n \div 1000) \o "," \o Pad(n % 1000, 3)

\* q + r/d rounded to an integer the way float formatting rounds a value
\* that is exact in binary: to nearest, ties to even.
RoundHalfEven(q, r, d) ==
  IF 2 * r > d THEN q + 1
  ELSE IF 2 * r < d THEN q
  ELSE IF q % 2 = 0 THEN q ELSE q + 1

\* f"{t/10:.1f}" of a count t of tenths
OneDecimal(t) == ToString(t \div 10) \o "." \o ToString(t % 10)

\* x / 1e9 and x / 1e6 in tenths, rounded as :.1f rounds
TenthsOfBillions(x) ==
  RoundHalfEven(x.hi \div 100, (x.hi % 100) * 1000000 + x.lo, 100000000)
TenthsOfMillions(x) ==
  RoundHalfEven(x.hi * 10 + x.lo \div 100000, x.lo % 100000, 100000)

fmt_b_LowMillions(x) ==
  IF x.hi >= 1000 THEN "$" \o OneDecimal(TenthsOfBillions(x)) \o "B"
  ELSE IF x.hi >= 1 \/ x.lo >= 100000
       THEN "$" \o OneDecimal(TenthsOfMillions(x)) \o "M"
  ELSE "$" \o Grouped(x.lo)

\* lines 51-57
fmt_b(x) ==
  IF x.hi >= 1000 THEN "$" \o OneDecimal(TenthsOfBillions(x)) \o "B"
  ELSE IF x.hi >= 1 THEN "$" \o OneDecimal(TenthsOfMillions(x)) \o "M"
  ELSE "$" \o Grouped(x.lo)

\* f"${price:,.2f}" if price < 1000 else f"${price:,.0f}", price = c / 100
FormatPrice(c) ==
  IF c < 100000
  THEN "$" \o ToString(c \div 100) \o "." \o Pad(c % 100, 2)
  ELSE "$" \o Grouped(RoundHalfEven(c \div 100, c % 100, 100))

\* f"{change:+.2f}%", change = h / 100
FormatChange(h) ==
  LET a == IF h < 0 THEN -h ELSE h
  IN (IF h < 0 THEN "-" ELSE "+") \o ToString(a \div 100) \o "."
       \o Pad(a % 100, 2) \o "%"

---------------------------------------------------------------------------
(* The price metrics loop, lines 125-151.  The price mapping is a body     *)
(* whose keys are the coin ids present and whose rows are their quotes     *)
(* [id, usd, usd_24h_change].                                              *)

price_coins == <<"bitcoin", "ethereum", "solana", "cardano", "polkadot",
                 "avalanche-2", "chainlink", "polygon">>

\* dict.get(key, 0) on a quote field
GetOr0(v) == IF v.k = "missing" THEN Num(0) ELSE v

NoQuote == [usd |-> Missing, usd_24h_change |-> Missing]

\* prices.get(coin_id, {})
CoinData(pr, coin_id) ==
  IF coin_id \in pr.keys
  THEN LET r == CHOOSE r \in {pr.rows[i] : i \in 1..Len(pr.rows)} : r.id = coin_id
       IN [usd |-> r.usd, usd_24h_change |-> r.usd_24h_change]
  ELSE NoQuote

PriceMetricNonNegative(pr, coin_id) ==
  LET coin_data == CoinData(pr, coin_id)
      price == GetOr0(coin_data.usd)
      change == GetOr0(coin_data.usd_24h_change)
  IN IF price.n >= 0
     THEN [coin |-> coin_id, value |-> FormatPrice(price.n),
           delta |-> FormatChange(change.n), exc |-> ""]
     ELSE [coin |-> coin_id, value |-> "N/A", delta |-> "0.00%", exc |-> ""]

\* One pass of the loop body, lines 139-151: [coin, value, delta, exc].
\* Comparing or formatting None or a str raises TypeError.
PriceMetric(pr, coin_id) ==
  LET coin_data == CoinData(pr, coin_id)
      price == GetOr0(coin_data.usd)
      change == GetOr0(coin_data.usd_24h_change)
  IN IF price.k # "num"
     THEN [coin |-> coin_id, value |-> "", delta |-> "", exc |-> "TypeError"]
     ELSE IF price.n > 0
     THEN IF change.k # "num"
          THEN [coin |-> coin_id, value |-> "", delta |-> "", exc |-> "TypeError"]
          ELSE [coin |-> coin_id, value |-> FormatPrice(price.n),
                delta |-> FormatChange(change.n), exc |-> ""]
     ELSE [coin |-> coin_id, value |-> "N/A", delta |-> "0.00%", exc |-> ""]

\* The loop: the metrics rendered before the first exception, and that
\* exception ("" when the loop completes).
PriceMetrics(pr) ==
  LET all == [i \in 1..Len(price_coins) |-> PriceMetric(pr, price_coins[i])]
      bad == {i \in 1..Len(all) : all[i].exc # ""}
      stop == IF bad = {} THEN Len(all) + 1
              ELSE CHOOSE i \in bad : \A j \in bad : i <= j
  IN [exc |-> IF bad = {} THEN "" ELSE all[stop].exc,
      shown |-> SubSeq(all, 1, stop - 1)]

---------------------------------------------------------------------------
(* SpecFmt: fmt_b applied to one amount.  The amounts avoid the ties of    *)
(* :.1f whose decimal value is not exact in binary (x.05, x.15, ...);      *)
(* x.25 and x.75 are exact and are in.                                     *)

MaxHundreds == 30
MaxK == 12

FmtHi == {0, 1, 2, 12, 999, 1000, 1250, 2750} \cup {h * 100 : h \in 1..MaxHundreds}
FmtLo == {0, 7, 999, 1000, 49999, 50001, 234567, 250000, 500000, 750000, 999999}
           \cup {k * 1001 : k \in 1..MaxK}

InitFmt ==
  /\ Fresh
  /\ pc = "input"
  /\ min_apy = 10
  /\ arg \in [hi : FmtHi, lo : FmtLo]
  /\ res = ""

ApplyFmt ==
  /\ pc = "input"
  /\ res' = fmt_b(arg)
  /\ pc' = "done"
  /\ UNCHANGED <<ctlvars, min_apy, arg>>

NextFmt == ApplyFmt

SpecFmt == InitFmt /\ [][NextFmt]_vars

(* SpecPrice: the price metrics loop applied to one price mapping. *)

PricePool == <<Num(0), Num(45), Num(99999), Num(100000), Num(4523177),
               Num(100050), Missing, Num(100150), Num(1)>>
ChangePool == <<Num(-123), Num(0), Num(250), Missing, Num(5)>>

GenQuote(i, p, q) ==
  [id |-> price_coins[i],
   usd |-> PricePool[(((i - 1) * p + q) % Len(PricePool)) + 1],
   usd_24h_change |-> ChangePool[(((i - 1) * p + q) % Len(ChangePool)) + 1]]

\* The mapping that holds the coins of present, coin i quoted GenQuote(i, p, q).
PriceBody(present, p, q) ==
  [t |-> "obj",
   keys |-> present,
   rows |-> SelectSeq([i \in 1..Len(price_coins) |-> GenQuote(i, p, q)],
                      LAMBDA r : r.id \in present)]

CoinIds == {price_coins[i] : i \in 1..Len(price_coins)}

InitPrice ==
  /\ Fresh
  /\ pc = "input"
  /\ min_apy = 10
  /\ arg \in {PriceBody(present, p, q) :
                present \in SUBSET CoinIds, p \in 0..MaxStride,
                q \in 0..(Len(PricePool) - 1)}
  /\ res = [exc |-> "pending", shown |-> <<>>]

ApplyPrice ==
  /\ pc = "input"
  /\ res' = PriceMetrics(arg)
  /\ pc' = "done"
  /\ UNCHANGED <<ctlvars, min_apy, arg>>

NextPrice == ApplyPrice

SpecPrice == InitPrice /\ [][NextPrice]_vars

---------------------------------------------------------------------------
(* The cached fetcher, lines 41-49. *)

TTL == 60

Endpoints == Sources \cup {"prices"}

URL(e) ==
  CASE e = "protocols" -> "https://api.llama.fi/protocols"
    [] e = "chains"    -> "https://api.llama.fi/chains"
    [] e = "stables"   -> "https://stablecoins.llama.fi/stablecoins"
    [] e = "yields"    -> "https://yields.llama.fi/pools"
    [] e = "prices"    -> "https://api.coingecko.com/api/v3/simple/price"

\* What the network gives requests.get: net is "ok" when a response arrives
\* (else the transport error), status its status code, json whether the
\* payload parses as JSON, body the parsed payload.
Response(net, status, json, body) ==
  [net |-> net, status |-> status, json |-> json, body |-> body]

Failed(url) == [value |-> EmptyMap, warning |-> url, raised |-> ""]

FetchBodyNoStatusCheck(url, resp) ==
  IF resp.net # "ok" THEN Failed(url)
  ELSE IF ~resp.json THEN Failed(url)
  ELSE [value |-> resp.body, warning |-> "", raised |-> ""]

\* The body of _fetch, lines 43-49: requests.get raises on a transport error
\* or timeout, raise_for_status on a 4xx / 5xx status, r.json() on a payload
\* that is not JSON; `except Exception` turns each into a warning and {}.
FetchBody(url, resp) ==
  IF resp.net # "ok" THEN Failed(url)
  ELSE IF resp.status >= 400 THEN Failed(url)
  ELSE IF ~resp.json THEN Failed(url)
  ELSE [value |-> resp.body, warning |-> "", raised |-> ""]

NoEntry == [has |-> FALSE, data |-> EmptyMap, at |-> 0]

CacheValidInclusive(entry, t) == entry.has /\ t <= entry.at + TTL
\* st.cache_data(ttl=60): an entry serves until its age reaches the TTL.
CacheValid(entry, t) == entry.has /\ t < entry.at + TTL

CacheStoreUnlessEmpty(c, e, value, t) ==
  IF value = EmptyMap THEN c
  ELSE [c EXCEPT ![e] = [has |-> TRUE, data |-> value, at |-> t]]
\* st.cache_data stores whatever the function returns, {} included.
CacheStore(c, e, value, t) ==
  [c EXCEPT ![e] = [has |-> TRUE, data |-> value, at |-> t]]

ClearedExceptPrices == [e \in Endpoints |-> IF e = "prices" THEN cache[e] ELSE NoEntry]
\* st.cache_data.clear(), line 31
Cleared == [e \in Endpoints |-> NoEntry]

\* _fetch as its callers see it, at time t with store c, resp being what the
\* network answers if asked: the value returned, the store afterwards,
\* whether requests.get was called, and the URL warned about ("" if none).
CachedFetch(c, e, t, resp) ==
  IF CacheValid(c[e], t)
  THEN [value |-> c[e].data, cache |-> c, requested |-> FALSE, warning |-> ""]
  ELSE LET r == FetchBody(URL(e), resp)
       IN [value |-> r.value, cache |-> CacheStore(c, e, r.value, t),
           requested |-> TRUE, warning |-> r.warning]

---------------------------------------------------------------------------
(* The script run.  Streamlit runs the script top to bottom on start-up    *)
(* and on every widget event; pc = "idle" is a finished run waiting for an *)
(* event.  Events are taken between runs.  Charts are not modelled.        *)

MaxTime == 90
TickStep == 30
CtlRows == 11

CtlBodies(e) ==
  CASE e = "protocols" -> {ListBody(GenRows(e, CtlRows, 1, 0)), ErrObj}
    [] e = "chains"    -> {ListBody(GenRows(e, CtlRows, 1, 0)),
                           ListBody(GenRows(e, CtlRows, 0, 7))}
    [] e = "stables"   -> {KeyedBody("peggedAssets", GenRows(e, CtlRows, 1, PoolLen)),
                           KeyedBody("peggedAssets", GenRows(e, CtlRows, 0, 4))}
    [] e = "yields"    -> {KeyedBody("data", GenRows(e, CtlRows, 1, 0)), ErrObj}
    [] e = "prices"    -> {PriceBody(CoinIds, 1, 0),
                           PriceBody(CoinIds \ {"ethereum"}, 1, 0)}

Failures ==
  {Response("connection_error", 0, FALSE, EmptyMap),
   Response("timeout", 0, FALSE, EmptyMap),
   Response("ok", 500, TRUE, ErrObj),
   Response("ok", 200, FALSE, EmptyMap)}

Responses(e) == Failures \cup {Response("ok", 200, TRUE, b) : b \in CtlBodies(e)}

NoCall == [called |-> FALSE, failed |-> FALSE, at |-> 0]
NoCalls == [e \in Endpoints |-> NoCall]

\* A script run starts: fresh module namespace, nothing rendered yet.
StartRun(isRefresh) ==
  /\ pc' = "protocols"
  /\ refreshing' = isRefresh
  /\ protocols' = <<>> /\ chains' = <<>> /\ stables' = <<>> /\ yields' = <<>>
  /\ prices' = EmptyMap
  /\ exc' = ""
  /\ warnings' = {}
  /\ requests' = [e \in Endpoints |-> 0]
  /\ metrics' = <<>>
  /\ log' = [calls |-> IF isRefresh THEN NoCalls ELSE log.calls,
             start |-> now, prev |-> log.start, prevOk |-> exc = ""]

Init ==
  /\ now = 0
  /\ cache = [e \in Endpoints |-> NoEntry]
  /\ pc = "protocols"
  /\ refreshing = FALSE
  /\ min_apy = 10
  /\ protocols = <<>> /\ chains = <<>> /\ stables = <<>> /\ yields = <<>>
  /\ prices = EmptyMap
  /\ exc = ""
  /\ warnings = {}
  /\ requests = [e \in Endpoints |-> 0]
  /\ log = [calls |-> NoCalls, start |-> 0, prev |-> -1, prevOk |-> FALSE]
  /\ metrics = <<>>
  /\ arg = <<>>
  /\ res = <<>>

\* lines 30-32: the button clears the cache and reruns the script.
ClickRefresh ==
  /\ pc = "idle"
  /\ cache' = Cleared
  /\ StartRun(TRUE)
  /\ UNCHANGED <<now, min_apy, arg, res>>

\* line 35: a new value of the number input reruns the script.
SetMinApy ==
  /\ pc = "idle"
  /\ \E v \in MinApyValues \ {min_apy} : min_apy' = v
  /\ StartRun(FALSE)
  /\ UNCHANGED <<now, cache, arg, res>>

\* Any other rerun of the script with the inputs unchanged.
Rerun ==
  /\ pc = "idle"
  /\ StartRun(FALSE)
  /\ UNCHANGED <<now, cache, min_apy, arg, res>>

\* Time passes between runs; a run is short against the TTL.
Tick ==
  /\ pc = "idle"
  /\ now + TickStep <= MaxTime
  /\ now' = now + TickStep
  /\ UNCHANGED <<cache, pc, refreshing, min_apy, protocols, chains, stables,
                 yields, prices, exc, warnings, requests, log, metrics, arg, res>>

\* The effects of one _fetch call f = CachedFetch(cache, e, now, resp).
Fetched(e, f) ==
  /\ cache' = f.cache
  /\ requests' = IF f.requested THEN [requests EXCEPT ![e] = @ + 1] ELSE requests
  /\ warnings' = IF f.warning # "" THEN warnings \cup {f.warning} ELSE warnings
  /\ log' = IF f.requested
            THEN [log EXCEPT !.calls[e] = [called |-> TRUE,
                                           failed |-> f.warning # "",
                                           at |-> now]]
            ELSE log

\* The run goes on to `next`, or ends with the exception that left the block.
Continue(e, next) ==
  IF e = ""
  THEN pc' = next /\ exc' = "" /\ refreshing' = refreshing
  ELSE pc' = "idle" /\ exc' = e /\ refreshing' = FALSE

\* lines 70-77
FetchProtocols ==
  /\ pc = "protocols"
  /\ \E resp \in Responses("protocols"), tie \in Ties :
       LET f == CachedFetch(cache, "protocols", now, resp)
           sh == ShapeProtocols(f.value, tie)
       IN /\ Fetched("protocols", f)
          /\ protocols' = sh.table
          /\ Continue(sh.exc, "chains")
  /\ UNCHANGED <<now, min_apy, chains, stables, yields, prices, metrics, arg, res>>

\* lines 80-86
FetchChains ==
  /\ pc = "chains"
  /\ \E resp \in Responses("chains"), tie \in Ties :
       LET f == CachedFetch(cache, "chains", now, resp)
           sh == ShapeChains(f.value, tie)
       IN /\ Fetched("chains", f)
          /\ chains' = sh.table
          /\ Continue(sh.exc, "stables")
  /\ UNCHANGED <<now, min_apy, protocols, stables, yields, prices, metrics, arg, res>>

\* lines 89-98
FetchStables ==
  /\ pc = "stables"
  /\ \E resp \in Responses("stables"), tie \in Ties :
       LET f == CachedFetch(cache, "stables", now, resp)
           sh == ShapeStables(f.value, tie)
       IN /\ Fetched("stables", f)
          /\ stables' = sh.table
          /\ Continue(sh.exc, "yields")
  /\ UNCHANGED <<now, min_apy, protocols, chains, yields, prices, metrics, arg, res>>

\* lines 101-110
FetchYields ==
  /\ pc = "yields"
  /\ \E resp \in Responses("yields"), tie \in Ties :
       LET f == CachedFetch(cache, "yields", now, resp)
           sh == ShapeYields(f.value, min_apy, tie)
       IN /\ Fetched("yields", f)
          /\ yields' = sh.table
          /\ Continue(sh.exc, "prices")
  /\ UNCHANGED <<now, min_apy, protocols, chains, stables, prices, metrics, arg, res>>

\* lines 113-120
FetchPrices ==
  /\ pc = "prices"
  /\ \E resp \in Responses("prices") :
       LET f == CachedFetch(cache, "prices", now, resp)
       IN /\ Fetched("prices", f)
          /\ prices' = f.value
          /\ Continue("", "present")
  /\ UNCHANGED <<now, min_apy, protocols, chains, stables, yields, metrics, arg, res>>

RECURSIVE SumCells(_, _)
\* Series.sum() of a numeric column; NaN is skipped.
SumCells(rows, f) ==
  IF rows = <<>> THEN 0
  ELSE (IF Head(rows)[f].k = "num" THEN Head(rows)[f].n ELSE 0)
         + SumCells(Tail(rows), f)

\* A column holding a str sums to a str, which fmt_b cannot compare.
SumRaises(rows, f) == \E i \in 1..Len(rows) : IsStrCell(rows[i][f])

\* lines 122-151 and 268-287: the price metrics, then the summary metrics
\* (the mean is kept as sum and count); the run ends.
Present ==
  /\ pc = "present"
  /\ LET pm == PriceMetrics(prices)
         e == IF pm.exc # "" THEN pm.exc
              ELSE IF SumRaises(stables, "circulating_usd") THEN "TypeError"
              ELSE ""
     IN /\ metrics' =
             IF e # "" THEN [price |-> pm.shown]
             ELSE [price |-> pm.shown,
                   total_defi_tvl |-> fmt_b(AmountOf(SumCells(protocols, "tvl"))),
                   total_chain_tvl |-> fmt_b(AmountOf(SumCells(chains, "tvl"))),
                   total_stable_cap |->
                      fmt_b(AmountOf(SumCells(stables, "circulating_usd"))),
                   avg_apy |-> [sum |-> SumCells(yields, "apy"),
                                count |-> Len(yields)]]
        /\ exc' = e
  /\ pc' = "idle"
  /\ refreshing' = FALSE
  /\ UNCHANGED <<now, cache, min_apy, protocols, chains, stables, yields,
                 prices, warnings, requests, log, arg, res>>

RunStep ==
  \/ FetchProtocols
  \/ FetchChains
  \/ FetchStables
  \/ FetchYields
  \/ FetchPrices
  \/ Present

Next ==
  \/ ClickRefresh
  \/ SetMinApy
  \/ Rerun
  \/ Tick
  \/ RunStep

Spec == Init /\ [][Next]_vars

PCs == {"idle", "protocols", "chains", "stables", "yields", "prices", "present"}

\* A step of the run in progress.  Every RunStep moves pc, RunStep is
\* enabled whenever pc # "idle", and no other action is: the steps of Next
\* that satisfy RunAdvances are the RunSteps, and it is enabled when they are.
RunAdvances == pc # "idle" /\ pc' \in PCs /\ pc' # pc

\* Streamlit carries a started run through to the end of the script.
SpecFair == Spec /\ WF_pc(RunAdvances)

---------------------------------------------------------------------------
(* Properties of the formatters. *)

CharAt(str, i) == SubSeq(str, i, i)
LastChar(str) == CharAt(str, Len(str))
HasDot(str) == \E i \in 1..Len(str) : CharAt(str, i) = "."
IsDigit(c) == c \in {"0", "1", "2", "3", "4", "5", "6", "7", "8", "9"}

\* The tier rule of fmt_b, read off the rendered text.
FmtTierRule ==
  /\ arg.hi >= 1000 => LastChar(res) = "B"
  /\ (arg.hi >= 1 /\ arg.hi < 1000) => LastChar(res) = "M"
  /\ arg.hi = 0 => (IsDigit(LastChar(res)) /\ ~HasDot(res)
                     /\ res = "$" \o Grouped(arg.lo))
  /\ arg.hi >= 1 => (CharAt(res, 1) = "$" /\ CharAt(res, Len(res) - 2) = "."
                     /\ IsDigit(CharAt(res, Len(res) - 1)))

FmtExamples ==
  /\ arg = Amount(2500, 0) => res = "$2.5B"
  /\ arg = Amount(0, 999) => res = "$999"
  /\ arg = Amount(0, 0) => res = "$0"
  /\ arg = Amount(1, 234567) => res = "$1.2M"
  /\ arg = Amount(1250, 0) => res = "$1.2B"
  /\ arg = Amount(999, 999999) => res = "$1000.0M"

\* C10 as stated: fmt_b picks its tier by value (>= 1e9 "$x.xB", >= 1e6
\* "$x.xM", else a comma-grouped integer), with fmt_b(2_500_000_000) =
\* "$2.5B", fmt_b(750_000) = "$0.8M", fmt_b(999) = "$999" and fmt_b(0) = "$0".
C10_FmtAsStated ==
  pc = "done" =>
    /\ FmtTierRule
    /\ FmtExamples
    /\ arg = Amount(0, 750000) => res = "$0.8M"

\* C10 amended: the same tier rule and examples, except that 750_000 is
\* below 1e6 and renders comma-grouped, fmt_b(750_000) = "$750,000".
C10_FmtTiers ==
  pc = "done" =>
    /\ FmtTierRule
    /\ FmtExamples
    /\ arg = Amount(0, 750000) => res = "$750,000"

C10_Witness == pc = "done" /\ arg = Amount(0, 750000) /\ res = "$750,000"

(* Properties of the price metrics loop. *)

QuotedUsd(pr, coin_id) == GetOr0(CoinData(pr, coin_id).usd).n
QuotedChange(pr, coin_id) == GetOr0(CoinData(pr, coin_id).usd_24h_change).n

\* C9: whatever subset of the 8 coins the price mapping lacks (all of them
\* for the empty mapping), the loop raises nothing and renders 8 metrics; a
\* coin that is absent or priced 0 shows "N/A" / "0.00%"; a coin priced > 0
\* shows its price with 2 decimals below 1000 and none from 1000 up, and its
\* change with a sign.
C9_PriceMetrics ==
  pc = "done" =>
    /\ res.exc = ""
    /\ Len(res.shown) = Len(price_coins)
    /\ \A i \in 1..Len(res.shown) :
         LET m == res.shown[i]
             usd_ == QuotedUsd(arg, price_coins[i])
             chg == QuotedChange(arg, price_coins[i])
         IN /\ m.coin = price_coins[i]
            /\ (price_coins[i] \notin arg.keys \/ usd_ = 0)
                 => (m.value = "N/A" /\ m.delta = "0.00%")
            /\ (usd_ > 0 /\ usd_ < 100000)
                 => (CharAt(m.value, 1) = "$"
                     /\ CharAt(m.value, Len(m.value) - 2) = ".")
            /\ usd_ >= 100000 => (CharAt(m.value, 1) = "$" /\ ~HasDot(m.value))
            /\ usd_ > 0 => (/\ CharAt(m.delta, 1) = (IF chg < 0 THEN "-" ELSE "+")
                            /\ LastChar(m.delta) = "%"
                            /\ CharAt(m.delta, Len(m.delta) - 3) = ".")
            /\ usd_ = 4523177 => m.value = "$45,232"
            /\ usd_ = 45 => m.value = "$0.45"
            /\ (usd_ > 0 /\ chg = -123) => m.delta = "-1.23%"

C9_Witness ==
  /\ pc = "done"
  /\ "ethereum" \notin arg.keys
  /\ res.shown[2].value = "N/A" /\ res.shown[2].delta = "0.00%"
  /\ \E i \in 1..Len(res.shown) : res.shown[i].value = "$45,232"
  /\ \E i \in 1..Len(res.shown) : res.shown[i].value = "$0.45"

---------------------------------------------------------------------------
(* Properties of the shaping blocks. *)

Cap(e) ==
  CASE e = "protocols" -> TOP_PROTOCOLS
    [] e = "chains"    -> TOP_CHAINS
    [] e = "stables"   -> TOP_STABLES
    [] e = "yields"    -> TOP_YIELDS

KeyField(e) ==
  CASE e = "protocols" -> "tvl"
    [] e = "chains"    -> "tvl"
    [] e = "stables"   -> "circulating_usd"
    [] e = "yields"    -> "apy"

NumFields(e) ==
  CASE e = "protocols" -> {"tvl", "change_1d"}
    [] e = "chains"    -> {"tvl"}
    [] e = "stables"   -> {"circulating_usd"}
    [] e = "yields"    -> {"apy", "tvlUsd"}

\* The rows of the array the block expects, <<>> when the body has none.
SourceRows(e, raw) ==
  IF e \in {"protocols", "chains"}
  THEN IF raw.t = "list" THEN raw.rows ELSE <<>>
  ELSE IF HasKey(raw, ArrayKey(e)) THEN raw.rows ELSE <<>>

\* The raw value of a numeric field of a source row.
RawCell(e, row, f) ==
  IF e = "stables"
  THEN IF row.circulating.k = "dict" THEN row.circulating.peggedUSD ELSE Missing
  ELSE row[f]

\* The coercion rule of the specification: the number, or 0.
Coerced(v) == IF v.k \in {"num", "numstr"} THEN Num(v.n) ELSE Num(0)

\* C5 as stated: numeric coercion never raises, and every numeric cell of a
\* shaped table (tvl, change_1d, circulating_usd, apy, tvlUsd) is the number
\* its raw value holds or spells, and exactly 0 for a missing, null or
\* non-numeric raw value, so that no null reaches the sort or the sums.
C5_CoercionUniform ==
  pc = "done" =>
    /\ res.exc \notin {"AttributeError", "TypeError"}
    /\ res.exc = "" =>
         \A i \in 1..Len(res.table) : \A f \in NumFields(arg.e) :
            res.table[i][f] =
              Coerced(RawCell(arg.e, SourceRows(arg.e, arg.raw)[res.table[i].name], f))

\* The order sort_values puts on the cells of a column, nulls lowest.
KeyLess(a, b) ==
  IF a.k \in {"null", "missing"} THEN b.k \notin {"null", "missing"}
  ELSE IF b.k \in {"null", "missing"} THEN FALSE
  ELSE CellLess(a, b)

\* The rows a block sorts, as [name, key]: every source row with its sort
\* key, for yields those inside the APY window.
Candidates(e, raw, m) ==
  LET rows == SourceRows(e, raw)
      key(r) == IF e = "stables" THEN usd(r.circulating)
                ELSE Coerced(r[KeyField(e)])
  IN {[name |-> rows[i].name, key |-> key(rows[i])] :
        i \in {j \in 1..Len(rows) :
                 e = "yields" => (key(rows[j]).n > m /\ key(rows[j]).n < APY_MAX)}}

\* C8: a shaped table has at most 10 / 10 / 6 / 12 rows, whatever the input
\* size; its rows are distinct input rows in descending order of the sort
\* key, and no row left out has a larger key than a row kept.
C8_TopRows ==
  (pc = "done" /\ res.exc = "") =>
    LET t == res.table
        kf == KeyField(arg.e)
        cands == Candidates(arg.e, arg.raw, min_apy)
        kept == {t[i].name : i \in 1..Len(t)}
    IN /\ Len(t) <= Cap(arg.e)
       /\ Len(t) = Min(Cap(arg.e), Cardinality(cands))
       /\ \A i \in 1..Len(t) : [name |-> t[i].name, key |-> t[i][kf]] \in cands
       /\ \A i, j \in 1..Len(t) : i < j =>
             (t[i].name # t[j].name /\ ~KeyLess(t[i][kf], t[j][kf]))
       /\ \A c \in cands : c.name \notin kept =>
             \A i \in 1..Len(t) : ~KeyLess(t[i][kf], c.key)

\* A yield table cut to 12 rows of differing keys, a smaller-keyed pool left out.
C8_Witness ==
  /\ pc = "done" /\ res.exc = "" /\ arg.e = "yields"
  /\ Len(res.table) = TOP_YIELDS
  /\ Len(arg.raw.rows) > TOP_YIELDS
  /\ KeyLess(res.table[TOP_YIELDS].apy, res.table[1].apy)
  /\ \E c \in Candidates("yields", arg.raw, min_apy) :
        KeyLess(c.key, res.table[TOP_YIELDS].apy)

---------------------------------------------------------------------------
(* SpecFetch: the body of _fetch applied to one network outcome. *)

AllResponses(e) ==
  {Response(net, status, json, body) :
     net \in {"ok", "connection_error", "timeout"},
     status \in {200, 404, 500},
     json \in BOOLEAN,
     body \in (IF e = "prices"
               THEN {EmptyMap, PriceBody(CoinIds, 1, 0), PriceBody({"bitcoin"}, 0, 4)}
               ELSE BodiesOf(e, 0..2, 0..MaxStride, {0, PoolLen}))}

InitFetch ==
  /\ Fresh
  /\ pc = "input"
  /\ min_apy = 10
  /\ \E e \in Endpoints : arg \in [e : {e}, resp : AllResponses(e)]
  /\ res = [value |-> EmptyMap, warning |-> "", raised |-> "pending"]

ApplyFetch ==
  /\ pc = "input"
  /\ res' = FetchBody(URL(arg.e), arg.resp)
  /\ pc' = "done"
  /\ UNCHANGED <<ctlvars, min_apy, arg>>

NextFetch == ApplyFetch

SpecFetch == InitFetch /\ [][NextFetch]_vars

\* A response that arrived, with a success status and a JSON payload.
Succeeds(resp) == resp.net = "ok" /\ resp.status < 400 /\ resp.json

\* C2: _fetch never raises; a transport error, a timeout, an error status or
\* a payload that is not JSON gives the empty mapping and a warning naming
\* the URL; a successful response gives its parsed body, unchanged, and no
\* warning.
C2_FetchTotal ==
  pc = "done" =>
    /\ res.raised = ""
    /\ Succeeds(arg.resp) => (res.value = arg.resp.body /\ res.warning = "")
    /\ ~Succeeds(arg.resp) => (res.value = EmptyMap /\ res.warning = URL(arg.e))

\* An error status with a JSON error page: the page is not returned.
C2_Witness ==
  /\ pc = "done"
  /\ arg.resp.net = "ok" /\ arg.resp.status = 500 /\ arg.resp.json
  /\ arg.resp.body # EmptyMap
  /\ res.value = EmptyMap /\ res.warning = URL(arg.e)

---------------------------------------------------------------------------
(* Properties of the run and refresh cycle. *)

Age(e) == now - cache[e].at
Requested(e) == requests'[e] > requests[e]
NoRequests == \A e \in Endpoints : requests[e] = 0

\* C1 as stated: a render that follows an earlier render within the TTL
\* issues zero network calls (here: an earlier render that ran to its end,
\* the later one not started by the Refresh button).
C1_RenderWithinTTL ==
  (/\ pc = "present" /\ ~refreshing
   /\ log.prev >= 0 /\ log.prevOk
   /\ log.start - log.prev < TTL) => NoRequests

\* C1 amended: a _fetch call whose cached entry was stored less than 60
\* units before issues no network call, and otherwise issues exactly one,
\* so a render all of whose entries are that young issues none; the Refresh
\* button empties the whole cache, and the render it starts issues a network
\* call for every endpoint it reads, whatever the age of the entries before.
C1_CacheAndRefresh ==
  [][/\ \A e \in Endpoints :
          (pc = e /\ pc' # e) =>
             /\ Requested(e) <=> ~(cache[e].has /\ Age(e) < TTL)
             /\ \A o \in Endpoints \ {e} : ~Requested(o)
     /\ (pc = "idle" /\ refreshing') => \A e \in Endpoints : ~cache'[e].has
     /\ (refreshing /\ pc \in Endpoints) => Requested(pc)]_vars

\* A render that ran to its end on cached entries only, a tick after the
\* calls that stored them.
C1_Witness ==
  /\ pc = "idle" /\ exc = "" /\ NoRequests
  /\ \A e \in Endpoints : cache[e].has /\ log.start = cache[e].at + TickStep

\* C3: the controller leaves Idle for Refreshing only by the Refresh button
\* (from a finished run, with the whole cache emptied and a run started),
\* and a Refreshing controller always gets back to Idle, whichever fetches
\* fail.
C3_RefreshCycle ==
  /\ [][(~refreshing /\ refreshing') =>
          (/\ pc = "idle" /\ pc' = "protocols"
           /\ \A e \in Endpoints : ~cache'[e].has)]_vars
  /\ (refreshing ~> ~refreshing)

\* A refresh run that reached the presentation although a fetch failed.
C3_Witness == refreshing /\ pc = "present" /\ warnings # {}

Table(e) ==
  CASE e = "protocols" -> protocols
    [] e = "chains"    -> chains
    [] e = "stables"   -> stables
    [] e = "yields"    -> yields

\* A body that is empty, lacks the array the block expects, or has rows
\* without the block's field.
Malformed(e, raw) ==
  \/ SourceRows(e, raw) = <<>>
  \/ IF e = "stables"
     THEN "circulating" \notin Columns(raw.rows, {"circulating"})
     ELSE NumFields(e) \ Columns(SourceRows(e, raw), NumFields(e)) # {}

\* C4 as stated: no run ends in an exception; a source whose body is
\* malformed gets an empty table, and every other source the table its own
\* body shapes to.
C4_SectionsIndependent ==
  pc = "idle" =>
    /\ exc = ""
    /\ \A e \in Sources :
         IF Malformed(e, cache[e].data) THEN Table(e) = <<>>
         ELSE \E tie \in Ties : Table(e) = Shape(e, cache[e].data, min_apy, tie).table

\* C6: an endpoint is requested at most once in a run, and an endpoint whose
\* last request failed is not requested again before the TTL of the cached
\* empty result has passed, unless the Refresh button cleared the cache.
C6_NoRetry ==
  [][\A e \in Endpoints :
        Requested(e) =>
          /\ requests[e] = 0
          /\ (log.calls[e].called /\ log.calls[e].failed)
               => now >= log.calls[e].at + TTL]_vars

\* A later render answered an endpoint's failed fetch from the cache.
C6_Witness ==
  /\ pc = "idle" /\ exc = ""
  /\ \E e \in Endpoints :
       /\ log.calls[e].failed /\ log.start > log.calls[e].at
       /\ requests[e] = 0
       /\ cache[e].data = EmptyMap

\* C7: every row of the yield table has min_apy < apy < 1000, for the
\* min_apy of the run that built it.
C7_YieldWindow ==
  \A i \in 1..Len(yields) : yields[i].apy.n > min_apy /\ yields[i].apy.n < APY_MAX

\* After a filter change, a table that left out a pool at the threshold and
\* a pool at 1000.
C7_Witness ==
  /\ pc = "idle" /\ min_apy = 50 /\ yields # <<>>
  /\ \E i \in 1..Len(cache["yields"].data.rows) :
        Coerced(cache["yields"].data.rows[i].apy).n = min_apy
  /\ \E i \in 1..Len(cache["yields"].data.rows) :
        Coerced(cache["yields"].data.rows[i].apy).n = APY_MAX

====
